---- MODULE Spec2Model ----
(***************************************************************************)
(* RS-HDMR-GPR (src/RS_HDMR_GPR_Code.py): the fitting routine RS_HDMR_GPR  *)
(* with its helpers rmse and sumcol, as a state machine.                   *)
(*                                                                         *)
(* Numbers.  Targets, component values and predictions are floats in the   *)
(* program.  Here a float is an integer count of 1/Unit steps (fixed       *)
(* point); sums and differences are exact and every quotient or product    *)
(* is rounded down to the grid, as float arithmetic rounds to the nearest  *)
(* representable value.  The ramp factor and the noise level are kept      *)
(* exactly: the ramp as a fraction [n, d], the noise level as a decimal    *)
(* [m, e] meaning m * 10^e.                                                *)
(*                                                                         *)
(* Regressor.  GaussianProcessRegressor is an external library; it is      *)
(* represented by a deterministic stand-in with the same interface         *)
(* (construct, fit, predict with standard deviation): see GPR_fit and      *)
(* GPR_predict.                                                            *)
(***************************************************************************)
EXTENDS Integers, Sequences, FiniteSets, TLC

\* ------------------------------------------------------------------ bounds
Unit == 12
MaxD == 2
NTrain == 2
NTest == 1
MaxCycles == 10
MaxWidth == 3

\* ------------------------------------------------------- program constants
RmseSentinel == 10000
YpredSentinel == 10000
ErrorbarSentinel == 5000
FirstDecayCycle == 2
LastDecayBound == 8

VARIABLES
    pc, exc,
    X_train, y_train, X_test, y_test,
    order, alpha, use_decay_alpha, scale_factor, number_cycles, init, mixe,
    all_combos, component_function_train, GPR,
    rmse_train, maxscaledowncycle, k, i,
    vect, pred, ramp,
    component_function_test, errorbars, ypred, y_pred_scaled, error_bars,
    rmse_test, result,
    alpha0, written, nfits,
    F, j, site, s

inputs == <<X_train, y_train, X_test, y_test, order, use_decay_alpha,
            scale_factor, number_cycles, init, mixe, alpha0>>
fitstate == <<all_combos, component_function_train, GPR, rmse_train,
              maxscaledowncycle, k, i, alpha>>
stepvars == <<vect, pred, ramp, written, nfits>>
teststate == <<component_function_test, errorbars, ypred, y_pred_scaled,
               error_bars, rmse_test, result>>
sumvars == <<F, j, site, s>>
vars == <<pc, exc, inputs, fitstate, stepvars, teststate, sumvars>>

\* --------------------------------------------------------------- vectors
zeros(n) == [r \in 1..n |-> 0]

VAdd(a, b) == [r \in 1..Len(a) |-> a[r] + b[r]]

VSub(a, b) == [r \in 1..Len(a) |-> a[r] - b[r]]

VScale(a, c) == [r \in 1..Len(a) |-> a[r] * c]

RECURSIVE SeqSum(_)
SeqSum(a) == IF a = <<>> THEN 0 ELSE a[1] + SeqSum(Tail(a))

\* largest r in lo..hi with r*r <= x  (hi*hi > x on entry)
RECURSIVE SqrtBetween(_, _, _)
SqrtBetween(lo, hi, x) ==
    IF hi - lo <= 1 THEN lo
    ELSE LET mid == (lo + hi) \div 2
         IN IF mid * mid <= x THEN SqrtBetween(mid, hi, x)
                              ELSE SqrtBetween(lo, mid, x)

\* np.sqrt on the grid: sqrt(v/Unit) = sqrt(v*Unit)/Unit
GSqrt(v) == SqrtBetween(0, v * Unit + 1, v * Unit)

\* ------------------------------------------------------------------ rmse
rmse(yp, yt) ==
    LET Sqerr == [r \in 1..Len(yt) |-> ((yt[r] - yp[r]) * (yt[r] - yp[r])) \div Unit]
        MSE == SeqSum(Sqerr)
    IN GSqrt(MSE \div Len(yt))

\* ---------------------------------------------------------------- sumcol
\* The loop of sumcol over the columns lo..hi-1: s = s + F[:, i] for every
\* i in the range but j (the "i += 1" of the i == j branch changes only the
\* loop variable, which the for statement overwrites).  The range is summed
\* by halves; grid addition is associative, so the sum is the loop's.
RECURSIVE SumcolRange(_, _, _, _, _)
SumcolRange(Fm, jx, lo, hi, n) ==
    IF hi <= lo THEN zeros(n)
    ELSE IF hi = lo + 1 THEN (IF lo = jx THEN zeros(n) ELSE Fm.col[lo])
    ELSE LET mid == (lo + hi) \div 2
         IN VAdd(SumcolRange(Fm, jx, lo, mid, n), SumcolRange(Fm, jx, mid, hi, n))

\* A matrix is [rows, cols, col]: col[c] is column c (0-based) as a vector.
sumcol(Fm, jx) == SumcolRange(Fm, jx, 0, Fm.cols, Fm.rows)

Matrix(n, m, f) == [rows |-> n, cols |-> m, col |-> [c \in 0..(m - 1) |-> f[c]]]

SetCol(Fm, c, v) == [Fm EXCEPT !.col[c] = v]

\* ---------------------------------------------------------- combinations
\* itertools.combinations(range(D), r) for r >= 0, from feature lo on, in
\* the order itertools emits them (lexicographic).
RECURSIVE CombosFrom(_, _, _)
CombosFrom(lo, D, r) ==
    IF r = 0 THEN << <<>> >>
    ELSE IF lo >= D THEN <<>>
    ELSE LET withLo == CombosFrom(lo + 1, D, r - 1)
             without == CombosFrom(lo + 1, D, r)
         IN [c \in 1..Len(withLo) |-> <<lo>> \o withLo[c]] \o without

\* np.array(list(...)): rows 0..M-1
ZeroBased(sq) == [c \in 0..(Len(sq) - 1) |-> sq[c + 1]]

NumCombos(combos) == Cardinality(DOMAIN combos)

NumFeatures(X) == Cardinality(DOMAIN X[1])

\* pd.DataFrame(X)[cols]: the rows of X restricted to the columns cols
Restrict(X, cols) == [r \in 1..Len(X) |-> [c \in 1..Len(cols) |-> X[r][cols[c]]]]

\* ----------------------------------------------------------- initializer
Mean(y) == SeqSum(y) \div Len(y)

\* (1 / M) * mean * ones((N, M))
NaiveInit(y, n, m) ==
    LET cell == (((Unit \div m) * Mean(y)) \div Unit)
    IN Matrix(n, m, [c \in 0..(m - 1) |-> [r \in 1..n |-> cell]])

\* f = poly1d(polyfit(x, y, 3)); f(x).  With at most four (degree + 1) distinct
\* abscissae the least-squares cubic passes, at each abscissa, through the
\* mean of the targets observed there.
PolyFitEval(x, y) ==
    [r \in 1..Len(x) |->
        LET same == {q \in 1..Len(x) : x[q] = x[r]}
            tot == SeqSum([q \in 1..Len(x) |-> IF q \in same THEN y[q] ELSE 0])
        IN tot \div Cardinality(same)]

PolyInit(X, y, combos) ==
    Matrix(Len(X), NumCombos(combos),
           [c \in DOMAIN combos |->
               PolyFitEval([r \in 1..Len(X) |-> X[r][combos[c][1]]], y)])

\* ------------------------------------------------------------- regressor
\* GaussianProcessRegressor(kernel=rbf, alpha=a, optimizer=optimizer); born
\* is the cycle that constructed the instance (-1: before the loop).
NewGPR(a, bornAt) ==
    [alpha |-> a, born |-> bornAt, fitted |-> FALSE, X_fit |-> <<>>,
     y_fit |-> <<>>, cols |-> <<>>, fit_cycle |-> -1, nfit |-> 0]

\* g.fit(xx, y): the instance keeps the training inputs and targets of its
\* latest fit only.
GPR_fit(g, xx, y, cols, kk) ==
    [g EXCEPT !.fitted = TRUE, !.X_fit = xx, !.y_fit = y, !.cols = cols,
              !.fit_cycle = kk, !.nfit = @ + 1]

\* g.predict(xq, return_std=True) of the stand-in: at a query row that has
\* training rows with the same inputs, the mean of their targets with
\* standard deviation 0; elsewhere the prior (mean 0, deviation 1).
GPR_predict(g, xq) ==
    LET match(r) == {q \in 1..Len(g.X_fit) : g.X_fit[q] = xq[r]}
        tot(r) == SeqSum([q \in 1..Len(g.X_fit) |->
                            IF q \in match(r) THEN g.y_fit[q] ELSE 0])
    IN [mean |-> [r \in 1..Len(xq) |->
                    IF match(r) = {} THEN 0 ELSE tot(r) \div Cardinality(match(r))],
        std |-> [r \in 1..Len(xq) |-> IF match(r) = {} THEN Unit ELSE 0]]

\* ------------------------------------------------------------ noise decay
\* alpha * 1e-1
Tenth(a) == [m |-> a.m, e |-> a.e - 1]

\* the alpha handed to the regressors constructed at the head of cycle kk
CycleAlpha(a, kk) ==
    IF kk < FirstDecayCycle THEN a
    ELSE IF kk >= FirstDecayCycle /\ kk < LastDecayBound THEN Tenth(a)
    ELSE a

\* line 125 left out: the running alpha never changes
NextAlphaNotStored(a, kk) == a

\* the upper limit of the decaying regime left out
NextAlphaNoFloor(a, kk) ==
    IF kk >= FirstDecayCycle THEN Tenth(a) ELSE a

\* the running alpha after the head of cycle kk
NextAlpha(a, kk) ==
    IF kk >= FirstDecayCycle /\ kk < LastDecayBound THEN Tenth(a) ELSE a

\* ------------------------------------------------------------------ ramp
\* the + 0.5 left out
RampNoOffset(kk, msd) ==
    IF kk + 1 >= msd THEN [n |-> 1, d |-> 1] ELSE [n |-> kk + 1, d |-> msd]

\* min(1, ((k + 1) / maxscaledowncycle) + 0.5), for maxscaledowncycle > 0
Ramp(kk, msd) ==
    IF 2 * (kk + 1) + msd >= 2 * msd THEN [n |-> 1, d |-> 1]
    ELSE [n |-> 2 * (kk + 1) + msd, d |-> 2 * msd]

ApplyRamp(p, rmp) == [r \in 1..Len(p) |-> (p[r] * rmp.n) \div rmp.d]

\* the ramp applied to the blend instead of to the prediction
UpdateColumnRampLast(p, rmp, v, mx) ==
    IF mx = "yes" THEN ApplyRamp([r \in 1..Len(p) |-> (p[r] + v[r]) \div 2], rmp)
    ELSE ApplyRamp(p, rmp)

\* lines 136-139: the value stored in column i
UpdateColumn(p, rmp, v, mx) ==
    IF mx = "yes" THEN [r \in 1..Len(p) |-> (ApplyRamp(p, rmp)[r] + v[r]) \div 2]
    ELSE ApplyRamp(p, rmp)

\* ------------------------------------------------------------------ inputs
\* Feature values are levels 0..NTrain; the model only compares them.
\* Training inputs: every feature tells the rows apart; or the first
\* feature is shared by all rows and the others tell them apart.
TrainInputs(D) ==
    { [r \in 1..NTrain |-> [c \in 0..(D - 1) |-> r - 1]],
      [r \in 1..NTrain |-> [c \in 0..(D - 1) |-> IF c = 0 THEN 0 ELSE r - 1]] }

\* Training targets, scaled to [0, 1] by the caller
TrainTargets ==
    { [r \in 1..NTrain |-> IF r = 1 THEN Unit ELSE 0],
      [r \in 1..NTrain |-> (r * Unit) \div NTrain] }

\* Test inputs: training rows; or rows that agree with the first training
\* row in the first feature and with no training row in the others.
TestInputs(D, X) ==
    { [r \in 1..NTest |-> X[((r - 1) % NTrain) + 1]],
      [r \in 1..NTest |-> [c \in 0..(D - 1) |-> IF c = 0 THEN X[1][0] ELSE NTrain]] }

Unbound == <<>>

NoMatrix == [rows |-> 0, cols |-> 0, col |-> <<>>]

\* the caller's arguments; the locals of RS_HDMR_GPR are not bound yet
Init ==
    /\ pc = "call" /\ exc = "none"
    /\ \E D \in 1..MaxD :
          /\ X_train \in TrainInputs(D)
          /\ X_test \in TestInputs(D, X_train)
    /\ y_train \in TrainTargets
    /\ y_test \in [1..NTest -> {Unit}]
    /\ order \in (-1)..(MaxD + 1)
    /\ alpha0 \in {[m |-> 1, e |-> -5], [m |-> 1, e |-> -8]}
    /\ alpha = alpha0
    /\ use_decay_alpha \in {"yes", "no"}
    /\ scale_factor \in {-1, 2}
    /\ number_cycles \in 1..MaxCycles
    /\ init \in {"naive", "poly"}
    /\ mixe \in {"yes", "no"}
    /\ all_combos = Unbound /\ component_function_train = NoMatrix
    /\ GPR = Unbound /\ rmse_train = Unbound /\ maxscaledowncycle = -1
    /\ k = -1 /\ i = -1
    /\ vect = Unbound /\ pred = Unbound /\ ramp = Unbound
    /\ component_function_test = NoMatrix /\ errorbars = NoMatrix
    /\ ypred = Unbound /\ y_pred_scaled = Unbound /\ error_bars = Unbound
    /\ rmse_test = -1 /\ result = Unbound
    /\ written = Unbound /\ nfits = 0
    /\ F = NoMatrix /\ j = -1 /\ site = "none" /\ s = Unbound

M == NumCombos(all_combos)

Raise(e) == pc' = "raised" /\ exc' = e

\* ------------------------------------------------- lines 93-115: set up
Setup ==
    /\ pc = "call"
    /\ IF order < 0
       THEN \* itertools.combinations: r must be non-negative
            /\ Raise("ValueError")
            /\ UNCHANGED <<fitstate, stepvars>>
       ELSE LET combos == ZeroBased(CombosFrom(0, NumFeatures(X_train), order))
                m == NumCombos(combos)
            IN IF init = "naive" /\ m = 0
               THEN \* 1 / all_combos.shape[0]
                    /\ Raise("ZeroDivisionError")
                    /\ all_combos' = combos
                    /\ UNCHANGED <<component_function_train, GPR, rmse_train,
                                   maxscaledowncycle, k, i, alpha, stepvars>>
               ELSE IF init = "poly" /\ m > 0 /\ order = 0
               THEN \* all_combos[i][0] of an empty row
                    /\ Raise("IndexError")
                    /\ all_combos' = combos
                    /\ UNCHANGED <<component_function_train, GPR, rmse_train,
                                   maxscaledowncycle, k, i, alpha, stepvars>>
               ELSE /\ all_combos' = combos
                    /\ component_function_train' =
                          IF init = "naive" THEN NaiveInit(y_train, Len(X_train), m)
                          ELSE PolyInit(X_train, y_train, combos)
                    /\ GPR' = [c \in 0..(m - 1) |-> NewGPR(alpha, -1)]
                    /\ rmse_train' = <<>>
                    /\ maxscaledowncycle' = number_cycles \div 3
                    /\ written' = [c \in 0..(m - 1) |-> -1]
                    /\ pred' = [c \in 0..(m - 1) |-> Unbound]
                    /\ k' = 0
                    /\ pc' = "cycle" /\ exc' = "none"
                    /\ UNCHANGED <<i, alpha, vect, ramp, nfits>>
    /\ UNCHANGED <<inputs, teststate, sumvars>>

\* ------------------------------------- lines 116-129: head of cycle k
BeginCycle ==
    /\ pc = "cycle" /\ k < number_cycles
    /\ IF use_decay_alpha = "yes"
       THEN /\ GPR' = [c \in 0..(M - 1) |-> NewGPR(CycleAlpha(alpha, k), k)]
            /\ alpha' = NextAlpha(alpha, k)
       ELSE UNCHANGED <<GPR, alpha>>
    /\ i' = 0
    /\ pc' = "combo"
    /\ UNCHANGED <<exc, inputs, all_combos, component_function_train,
                   rmse_train, maxscaledowncycle, k, stepvars, teststate, sumvars>>

\* --------------------------- lines 131-139: one combination of cycle k
FitComponent ==
    /\ pc = "combo" /\ i < M
    /\ LET v == VSub(y_train, sumcol(component_function_train, i))
           xx == Restrict(X_train, all_combos[i])
           g == GPR_fit(GPR[i], xx, v, all_combos[i], k)
           p == GPR_predict(g, xx).mean
       IN /\ vect' = v
          /\ nfits' = nfits + 1
          /\ IF Len(all_combos[i]) = 0
             THEN \* fit rejects an input without features
                  /\ Raise("ValueError")
                  /\ component_function_train' = SetCol(component_function_train, i, v)
                  /\ UNCHANGED <<GPR, pred, ramp, written, i>>
             ELSE IF maxscaledowncycle = 0
             THEN \* (k + 1) / maxscaledowncycle
                  /\ Raise("ZeroDivisionError")
                  /\ component_function_train' = SetCol(component_function_train, i, v)
                  /\ GPR' = [GPR EXCEPT ![i] = g]
                  /\ pred' = [pred EXCEPT ![i] = p]
                  /\ UNCHANGED <<ramp, written, i>>
             ELSE /\ GPR' = [GPR EXCEPT ![i] = g]
                  /\ pred' = [pred EXCEPT ![i] = p]
                  /\ ramp' = Ramp(k, maxscaledowncycle)
                  /\ component_function_train' =
                        SetCol(component_function_train, i,
                               UpdateColumn(p, Ramp(k, maxscaledowncycle), v, mixe))
                  /\ written' = [written EXCEPT ![i] = k]
                  /\ i' = i + 1
                  /\ UNCHANGED <<pc, exc>>
    /\ UNCHANGED <<inputs, all_combos, rmse_train, maxscaledowncycle, k, alpha,
                   teststate, sumvars>>

\* ------------------------------------------ lines 140-141: end of cycle k
EndCycle ==
    /\ pc = "combo" /\ i = M
    /\ rmse_train' = Append(rmse_train,
                            rmse(VScale(y_train, scale_factor),
                                 VScale(sumcol(component_function_train, RmseSentinel),
                                        scale_factor)))
    /\ k' = k + 1
    /\ pc' = "cycle"
    /\ UNCHANGED <<exc, inputs, all_combos, component_function_train, GPR,
                   maxscaledowncycle, i, alpha, stepvars, teststate, sumvars>>

\* ------------------------------------------- lines 150-159: test bloc
\* the test inputs restricted to the next combination's features
TestColumnNextCombo(c) ==
    GPR_predict(GPR[c], Restrict(X_test, all_combos[(c + 1) % NumCombos(all_combos)]))

\* lines 153-154: regressor c on the test inputs of combination c
TestColumn(c) == GPR_predict(GPR[c], Restrict(X_test, all_combos[c]))

Evaluate ==
    /\ pc = "cycle" /\ k = number_cycles
    /\ LET tst == Matrix(Len(X_test), M, [c \in 0..(M - 1) |-> TestColumn(c).mean])
           err == Matrix(Len(X_test), M,
                         [c \in 0..(M - 1) |->
                            [r \in 1..Len(X_test) |->
                               (TestColumn(c).std[r] * TestColumn(c).std[r]) \div Unit]])
           yp == sumcol(tst, YpredSentinel)
           tot == sumcol(err, ErrorbarSentinel)
       IN /\ component_function_test' = tst
          /\ errorbars' = err
          /\ ypred' = yp
          /\ y_pred_scaled' = VScale(yp, scale_factor)
          /\ error_bars' = [r \in 1..Len(tot) |-> GSqrt(tot[r])]
          /\ rmse_test' = rmse(VScale(y_test, scale_factor), VScale(yp, scale_factor))
    /\ pc' = "report"
    /\ UNCHANGED <<exc, inputs, fitstate, stepvars, result, sumvars>>

\* ------------------------------------------------------ line 183: return
Return ==
    /\ pc = "report"
    /\ result' = [rmse_train |-> rmse_train, rmse_test |-> rmse_test, GPR |-> GPR,
                  y_pred_scaled |-> y_pred_scaled,
                  error_bars |-> VScale(error_bars, scale_factor)]
    /\ pc' = "done"
    /\ UNCHANGED <<exc, inputs, fitstate, stepvars, component_function_test,
                   errorbars, ypred, y_pred_scaled, error_bars, rmse_test, sumvars>>

Next == Setup \/ BeginCycle \/ FitComponent \/ EndCycle \/ Evaluate \/ Return

Spec == Init /\ [][Next]_vars

TypeOK == pc \in {"call", "cycle", "combo", "report", "done", "raised"}

\* ------------------------------------------- sumcol as a function of (F, j)
\* Matrices of every width 1..MaxWidth, and matrices one column wider than
\* each exclusion index the program passes after the loop.
SmallMatrices ==
    UNION { { [rows |-> NTest, cols |-> w, col |-> f] :
                f \in [0..(w - 1) -> [1..NTest -> {0, Unit}]] } : w \in 1..MaxWidth }

WideMatrices ==
    { Matrix(NTest, w, [c \in 0..(w - 1) |-> [r \in 1..NTest |-> Unit]]) :
        w \in {ErrorbarSentinel + 1, RmseSentinel + 1} }

\* exclusion indices tried: the first columns, the last column, and the first
\* indices past the last column
ExclusionIndices(Fm) ==
    (0..((IF Fm.cols < MaxWidth THEN Fm.cols ELSE MaxWidth) + 1))
        \cup {Fm.cols - 1, Fm.cols, Fm.cols + 1}

SumInit ==
    /\ pc = "sumcol" /\ exc = "none"
    /\ F \in SmallMatrices \cup WideMatrices
    /\ site \in {"residual", "rmse", "ypred", "error_bars"}
    /\ IF site = "residual" THEN j \in ExclusionIndices(F)
       ELSE IF site = "error_bars" THEN j = ErrorbarSentinel
       ELSE IF site = "ypred" THEN j = YpredSentinel
       ELSE j = RmseSentinel
    /\ s = Unbound
    /\ X_train = Unbound /\ X_test = Unbound /\ y_train = Unbound /\ y_test = Unbound
    /\ order = 1 /\ alpha0 = [m |-> 1, e |-> -8] /\ alpha = alpha0
    /\ use_decay_alpha = "no" /\ scale_factor = 1 /\ number_cycles = 1
    /\ init = "naive" /\ mixe = "no"
    /\ all_combos = Unbound /\ component_function_train = NoMatrix
    /\ GPR = Unbound /\ rmse_train = Unbound /\ maxscaledowncycle = -1
    /\ k = -1 /\ i = -1
    /\ vect = Unbound /\ pred = Unbound /\ ramp = Unbound
    /\ component_function_test = NoMatrix /\ errorbars = NoMatrix
    /\ ypred = Unbound /\ y_pred_scaled = Unbound /\ error_bars = Unbound
    /\ rmse_test = -1 /\ result = Unbound
    /\ written = Unbound /\ nfits = 0

Summed ==
    /\ pc' = "summed"
    /\ UNCHANGED <<exc, inputs, fitstate, stepvars, teststate, F, j, site>>

\* line 132: sumcol(component_function_train, i)
SumcolResidual == pc = "sumcol" /\ site = "residual" /\ s' = sumcol(F, j) /\ Summed

\* line 140: sumcol(component_function_train, 10000)
SumcolRmse == pc = "sumcol" /\ site = "rmse" /\ s' = sumcol(F, RmseSentinel) /\ Summed

\* line 156: sumcol(component_function_test, 10000)
SumcolYpred == pc = "sumcol" /\ site = "ypred" /\ s' = sumcol(F, YpredSentinel) /\ Summed

\* line 158: sumcol(errorbars, 5000)
SumcolErrorbars ==
    pc = "sumcol" /\ site = "error_bars" /\ s' = sumcol(F, ErrorbarSentinel) /\ Summed

SumNext == SumcolResidual \/ SumcolRmse \/ SumcolYpred \/ SumcolErrorbars

SumSpec == SumInit /\ [][SumNext]_vars

\* ======================================================================
\*                               claims
\* ======================================================================
D == NumFeatures(X_train)

WellFormed == order >= 1 /\ order <= D

InLoop == pc \in {"cycle", "combo"}

Decayed(a, n) == [m |-> a.m, e |-> a.e - n]

Clamp(x, lo, hi) == IF x < lo THEN lo ELSE IF x > hi THEN hi ELSE x

\* the sum of the columns lo..hi-1 of Fm, none left out
RECURSIVE AllColumns(_, _, _)
AllColumns(Fm, lo, hi) ==
    IF hi <= lo THEN zeros(Fm.rows)
    ELSE IF hi = lo + 1 THEN Fm.col[lo]
    ELSE VAdd(AllColumns(Fm, lo, (lo + hi) \div 2), AllColumns(Fm, (lo + hi) \div 2, hi))

OtherColumns(Fm, c) == VAdd(AllColumns(Fm, 0, c), AllColumns(Fm, c + 1, Fm.cols))

\* ---------------------------------------------------------------- C1
\* C1 as stated: with decay enabled the regressors of cycles 0 and 1 carry
\* alpha0 and the regressors of every later cycle carry alpha0 * 0.1.
C1_DecaysOnce ==
    (pc = "combo" /\ use_decay_alpha = "yes") =>
        \A c \in 0..(M - 1) :
            GPR[c].alpha = IF k < FirstDecayCycle THEN alpha0 ELSE Decayed(alpha0, 1)

\* C1 amended: with decay enabled the regressors of cycles 0 and 1 carry
\* alpha0, those of cycle k in 2..7 carry alpha0 * 0.1^(k-1), and those of
\* every cycle k >= 8 carry alpha0 * 0.1^6, the value reached in cycle 7.
C1_DecaysEachCycle ==
    (pc = "combo" /\ use_decay_alpha = "yes") =>
        \A c \in 0..(M - 1) :
            /\ GPR[c].alpha = Decayed(alpha0, Clamp(k - 1, 0, 6))
            /\ GPR[c].born = k

C1_Witness ==
    /\ pc = "combo" /\ use_decay_alpha = "yes" /\ k = 9 /\ M > 0
    /\ GPR[0].alpha = Decayed(alpha0, 6)

\* ---------------------------------------------------------------- C2
\* C2: with well-formed data and 1 <= order <= D, a call with any
\* number_cycles >= 1 never raises, and the train-RMSE history it returns
\* has number_cycles entries, entry k appended once cycle k has updated all
\* M combinations.
C2_EveryCycleCountRuns ==
    WellFormed =>
        /\ pc # "raised"
        /\ pc = "done" => Len(result.rmse_train) = number_cycles
        /\ pc = "combo" => Len(rmse_train) = k
        /\ pc = "cycle" => Len(rmse_train) = k

\* ---------------------------------------------------------------- C3
\* C3: a call with order > D or order < 1 raises, under either
\* initialization policy; it never returns a result.
C3_MalformedOrderRaises ==
    ~WellFormed => pc \notin {"report", "done"}

\* ---------------------------------------------------------------- C4
\* C4: after every completed step (k, c), with vect the target minus the
\* other columns and p the prediction on the training inputs of regressor c
\* fit on vect: column c is (p * ramp + vect) / 2 if mixe is 'yes', and
\* p * ramp otherwise (p itself when ramp is 1).
C4_UpdateRule ==
    (pc = "combo" /\ i >= 1) =>
        LET c == i - 1
            p == pred[c]
            col == component_function_train.col[c]
            scaled(r) == (p[r] * ramp.n) \div ramp.d
        IN /\ vect = VSub(y_train, OtherColumns(component_function_train, c))
           /\ GPR[c].y_fit = vect
           /\ p = GPR_predict(GPR[c], Restrict(X_train, all_combos[c])).mean
           /\ \A r \in 1..Len(y_train) :
                 /\ mixe = "yes" => col[r] = (scaled(r) + vect[r]) \div 2
                 /\ mixe # "yes" => col[r] = scaled(r)
                 /\ (mixe # "yes" /\ ramp.n = ramp.d) => col[r] = p[r]

C4_Witness ==
    /\ pc = "combo" /\ i >= 1 /\ mixe = "yes" /\ ramp.n < ramp.d
    /\ pred[i - 1] # vect
    /\ component_function_train.col[i - 1] # vect
    /\ component_function_train.col[i - 1] # pred[i - 1]

\* ---------------------------------------------------------------- C5
\* C5: sumcol(F, j) is the sum of the columns other than j when j < M and
\* the sum of all M columns when j >= M; so, whatever M >= 1 is, the sums
\* behind the train RMSE, the test prediction and the combined uncertainty
\* leave no column out.
C5_SentinelSumsEveryColumn ==
    pc = "summed" =>
        /\ (site = "residual" /\ j < F.cols) => s = OtherColumns(F, j)
        /\ (site = "residual" /\ j >= F.cols) => s = AllColumns(F, 0, F.cols)
        /\ site \in {"rmse", "ypred", "error_bars"} => s = AllColumns(F, 0, F.cols)

\* ---------------------------------------------------------------- C6
\* C6: with decay enabled the running noise level keeps the mantissa of
\* alpha0, has been multiplied by 0.1 once per cycle begun in 2..7, and
\* from then on stays at alpha0 * 10^-6 (1e-11 for alpha0 = 1e-5): it is
\* never below that, however many cycles follow.
C6_DecayStopsAtFloor ==
    use_decay_alpha = "yes" =>
        /\ alpha.m = alpha0.m
        /\ alpha.e >= alpha0.e - 6
        /\ pc = "combo" => alpha.e = alpha0.e - Clamp(k - 1, 0, 6)
        /\ (InLoop /\ k >= LastDecayBound) => alpha = Decayed(alpha0, 6)
        /\ (pc \in {"report", "done"} /\ number_cycles >= LastDecayBound)
              => alpha = Decayed(alpha0, 6)

C6_Witness ==
    /\ use_decay_alpha = "yes" /\ alpha0 = [m |-> 1, e |-> -5]
    /\ pc = "done" /\ number_cycles > LastDecayBound
    /\ alpha = [m |-> 1, e |-> -11]

\* ---------------------------------------------------------------- C7
\* C7: the combined uncertainty returned to the caller is >= 0 for every
\* test sample, whatever scale_factor was passed.
C7_UncertaintyNonNegative ==
    pc = "done" => \A r \in 1..Len(X_test) : result.error_bars[r] >= 0

\* ---------------------------------------------------------------- C8
\* C8: the steps run in the order (k, i) lexicographic, one fit per step,
\* number_cycles * M fits in the whole call; when step (k, i) starts every
\* column before i was last written in cycle k and every column from i on
\* in cycle k - 1 (never, when k = 0).
C8_StepOrder ==
    WellFormed =>
        /\ (pc = "combo" /\ i < M) =>
              /\ nfits = k * M + i
              /\ \A c \in 0..(M - 1) : written[c] = IF c < i THEN k ELSE k - 1
        /\ pc \in {"report", "done", "raised"} => nfits = M * number_cycles

\* ---------------------------------------------------------------- C9
\* C9: for number_cycles >= 3 the ramp of every cycle k is
\* min(1, (k+1)/floor(number_cycles/3) + 1/2); it is above 1/2 and at most
\* 1, does not decrease with k, is below 1 only while
\* k + 1 < floor(number_cycles/3), and is 1 in the final cycle, whose
\* stored columns are the predictions themselves when mixing is off.
RampIs(rmp, kk) ==
    /\ rmp.d > 0
    /\ 2 * rmp.n > rmp.d
    /\ rmp.n <= rmp.d
    /\ IF 2 * (kk + 1) + maxscaledowncycle >= 2 * maxscaledowncycle
       THEN rmp.n = rmp.d
       ELSE rmp.n * 2 * maxscaledowncycle = rmp.d * (2 * (kk + 1) + maxscaledowncycle)
    /\ rmp.n < rmp.d => kk + 1 < maxscaledowncycle

C9_RampShape ==
    (number_cycles >= 3 /\ InLoop) =>
        /\ \A kk \in 0..(number_cycles - 1) :
              /\ RampIs(Ramp(kk, maxscaledowncycle), kk)
              /\ kk > 0 =>
                    Ramp(kk - 1, maxscaledowncycle).n * Ramp(kk, maxscaledowncycle).d
                      <= Ramp(kk, maxscaledowncycle).n * Ramp(kk - 1, maxscaledowncycle).d
        /\ (pc = "combo" /\ i >= 1) => RampIs(ramp, k)
        /\ (pc = "combo" /\ i >= 1 /\ k = number_cycles - 1) => ramp.n = ramp.d
        /\ (pc = "cycle" /\ k = number_cycles /\ mixe = "no" /\ WellFormed) =>
              \A c \in 0..(M - 1) : component_function_train.col[c] = pred[c]

C9_Witness ==
    /\ pc = "combo" /\ i >= 1 /\ k = 0 /\ number_cycles >= 9
    /\ ramp.n < ramp.d /\ 2 * ramp.n > ramp.d

\* ---------------------------------------------------------------- C10
\* C10: in the evaluator, test column c and error-bar column c come from
\* regressor c, last fit in the final cycle on the features all_combos[c],
\* applied to the test inputs restricted to those same features; these are
\* the regressors returned.  With decay enabled they were constructed in
\* the final cycle and fit once; with decay disabled they are the instances
\* made before the loop, fit once per cycle.
C10_EvaluatorUsesFinalFits ==
    (pc \in {"report", "done"}) =>
        /\ \A c \in 0..(M - 1) :
              LET out == GPR_predict(GPR[c], Restrict(X_test, GPR[c].cols))
              IN /\ GPR[c].fit_cycle = number_cycles - 1
                 /\ GPR[c].cols = all_combos[c]
                 /\ GPR[c].X_fit = Restrict(X_train, all_combos[c])
                 /\ component_function_test.col[c] = out.mean
                 /\ \A r \in 1..Len(X_test) :
                       errorbars.col[c][r] = (out.std[r] * out.std[r]) \div Unit
                 /\ use_decay_alpha = "yes" =>
                       (GPR[c].born = number_cycles - 1 /\ GPR[c].nfit = 1)
                 /\ use_decay_alpha # "yes" =>
                       (GPR[c].born = -1 /\ GPR[c].nfit = number_cycles)
        /\ pc = "done" => result.GPR = GPR

C10_Witness ==
    /\ pc = "done" /\ M >= 2 /\ use_decay_alpha = "no" /\ number_cycles >= 3
    /\ GPR[0].nfit = number_cycles
    /\ errorbars.col[0] # errorbars.col[1]
    /\ component_function_test.col[0] # component_function_test.col[1]

====
